---- MODULE Spec2Model ----
(***************************************************************************)
(* Model of package turnstile: the single-active-connection gate in its    *)
(* two facades, reopenListener (serve.go) and reopenDialer (client.go),    *)
(* and the connection wrapper rwConn (conn.go).                            *)
(*                                                                         *)
(* One gate is modelled; Init chooses which facade it is.  Threads are     *)
(*   - callers   1..NumCallers : goroutines calling Accept / DialContext,  *)
(*   - closers   1..NumClosers : goroutines calling the gate's Close(),    *)
(*   - one closing thread per connection wrapper, calling rwConn.Close().  *)
(* A critical section of the source, from mu.Lock() to mu.Unlock(), is one *)
(* step, enabled when mu is free and leaving mu as its last statement      *)
(* leaves it.  Channels are numbered like the stream whose wrapper they    *)
(* were made for.  A close of a closed                                     *)
(* channel panics: the panicking goroutine stops where it is (holding mu   *)
(* when the source holds it), the others go on, which is what a caller     *)
(* that recovers sees; a program that dies of the panic is the behaviour   *)
(* that stutters from there.                                               *)
(***************************************************************************)
EXTENDS Integers, FiniteSets, Sequences, TLC

\* ---- bounds of the model ----
NumCallers == 2
NumClosers == 1
MaxStreams == 2
MaxOpenFails == 1
BackoffFails == 7
RacingClosers == 2

\* ---- program constants (milliseconds) ----
InitialBackoff == 100
BackoffLimit == 2000

Callers == 1..NumCallers
Closers == 1..(IF NumClosers > RacingClosers THEN NumClosers ELSE RacingClosers)
Streams == 1..MaxStreams
Nil == 0
NoOne == <<"none", 0>>
NoEvent == <<0, "none", FALSE>>

VARIABLES
  facade,      \* "listener" or "dialer": which type the gate is
  active,      \* the callers that take part in this run
  closing,     \* the closers that take part in this run
  closed,      \* field closed
  closedCh,    \* field closedCh: Nil or a channel
  mu,          \* holder of field mu, or NoOne
  chan,        \* chan[c]: "none" (not made), "open", "closed"
  stream,      \* stream[s]: "none" (not opened yet), "open", "closed"
  pc,          \* pc[p]: where caller p is in Accept / DialContext
  waitCh,      \* waitCh[p]: local ch of the wait, kept until the call returns
  cstream,     \* cstream[p]: local c, the stream open returned
  backoff,     \* backoff[p]: local backoff
  nfail,       \* nfail[p]: failed open attempts of the current call
  ctx,         \* ctx[p]: the call's context is cancelled (dialer)
  afterClose,  \* afterClose[p]: the call began after a gate Close() returned
  gpc,         \* gpc[k]: where closer k is in Close()
  gch,         \* gch[k]: local ch of Close()
  closeDone,   \* some gate Close() has returned
  wpc,         \* wpc[w]: where the thread closing wrapper w is in rwConn.Close()
  wclosed,     \* wclosed[w]: a Close() of wrapper w has returned
  failsLeft,   \* failures the open operation may still produce
  panicked,    \* a close of a closed channel has happened
  ev           \* the call that returned in the last step: <<caller, return statement,
               \* whether it began after a gate Close() returned>>, or NoEvent

vars == <<facade, active, closing, closed, closedCh, mu, chan, stream, pc, ev, waitCh,
          cstream, backoff, nfail, ctx, afterClose, gpc, gch, closeDone, wpc,
          wclosed, failsLeft, panicked>>

gateVars == <<closed, closedCh, chan>>
callerVars == <<pc, waitCh, cstream, backoff, nfail, ctx, afterClose>>
closerVars == <<gpc, gch, closeDone>>
connVars == <<wpc, wclosed>>
envVars == <<facade, active, closing, failsLeft>>

\* The result a return statement hands to the caller.
Result(r) ==
  CASE r = "none" -> "none"
    [] r = "conn" -> "conn"
    [] r \in {"closed_entry", "closed_woken", "closed_opened", "closed_failed"}
         -> "ErrClosed"
    [] r \in {"cancel_begin", "cancel_wait", "cancel_retry", "cancel_sleep"}
         -> "Cancelled"
    [] OTHER -> "OpenError"

\* if backoff < 2*time.Second { backoff *= 2 }
NextBackoff(b) == IF b < BackoffLimit THEN b * 2 ELSE b

InitCommon ==
  /\ facade \in {"listener", "dialer"}
  /\ closed = FALSE
  /\ closedCh = Nil
  /\ mu = NoOne
  /\ chan = [c \in Streams |-> "none"]
  /\ stream = [s \in Streams |-> "none"]
  /\ pc = [p \in Callers |-> "idle"]
  /\ ev = NoEvent
  /\ waitCh = [p \in Callers |-> Nil]
  /\ cstream = [p \in Callers |-> Nil]
  /\ backoff = [p \in Callers |-> InitialBackoff]
  /\ nfail = [p \in Callers |-> 0]
  /\ ctx = [p \in Callers |-> FALSE]
  /\ afterClose = [p \in Callers |-> FALSE]
  /\ gpc = [k \in Closers |-> "idle"]
  /\ gch = [k \in Closers |-> Nil]
  /\ closeDone = FALSE
  /\ wpc = [w \in Streams |-> "idle"]
  /\ wclosed = [w \in Streams |-> FALSE]
  /\ panicked = FALSE

Init ==
  /\ InitCommon
  /\ active = Callers
  /\ closing = 1..NumClosers
  /\ failsLeft = MaxOpenFails

\* ---- helpers shared by the return statements ----

\* The call of caller p returns by the return statement r: its locals die.
Return(p, r) ==
  /\ pc' = [pc EXCEPT ![p] = "idle"]
  /\ ev' = <<p, r, afterClose[p]>>
  /\ afterClose' = [afterClose EXCEPT ![p] = FALSE]
  /\ waitCh' = [waitCh EXCEPT ![p] = Nil]
  /\ cstream' = [cstream EXCEPT ![p] = Nil]
  /\ backoff' = [backoff EXCEPT ![p] = InitialBackoff]
  /\ nfail' = [nfail EXCEPT ![p] = 0]
  /\ ctx' = [ctx EXCEPT ![p] = FALSE]

\* No call returns in this step.
Quiet == ev' = NoEvent

Goto(p, l) ==
  /\ pc' = [pc EXCEPT ![p] = l]
  /\ Quiet
  /\ UNCHANGED <<waitCh, cstream, backoff, nfail, ctx, afterClose>>

\* A read of field closed made without holding mu (serve.go:108) races with
\* Close(): it yields the current value or the stale one from before Close().
RacyReadClosed == IF closed THEN {TRUE, FALSE} ELSE {FALSE}

\* ---- the open operation (OpenFunc), as the gate sees it ----

\* open() returns a freshly opened stream s to caller p.
OpenReturnsStream(p, s) ==
  /\ stream[s] = "none"
  /\ \A t \in Streams : t < s => stream[t] # "none"
  /\ stream' = [stream EXCEPT ![s] = "open"]
  /\ cstream' = [cstream EXCEPT ![p] = s]
  /\ UNCHANGED <<failsLeft, nfail>>

\* open() returns an error to caller p.
OpenReturnsError(p) ==
  /\ failsLeft > 0
  /\ failsLeft' = failsLeft - 1
  /\ nfail' = [nfail EXCEPT ![p] = @ + 1]
  /\ UNCHANGED <<stream, cstream>>

\* ---- reopenListener.Accept ----

\* AcceptCheck without the Unlock of line 68 before the wait.
AcceptCheckKeepsLock(p) ==
  /\ facade = "listener"
  /\ p \in active
  /\ pc[p] = "idle"
  /\ mu = NoOne
  /\ IF closed
       THEN /\ ev' = <<p, "closed_entry", closeDone>>
            /\ mu' = NoOne
            /\ UNCHANGED <<pc, waitCh, afterClose>>
       ELSE /\ Quiet
            /\ afterClose' = [afterClose EXCEPT ![p] = closeDone]
            /\ IF closedCh # Nil
                 THEN /\ pc' = [pc EXCEPT ![p] = "wait"]
                      /\ waitCh' = [waitCh EXCEPT ![p] = closedCh]
                      /\ mu' = <<"call", p>>
                 ELSE /\ pc' = [pc EXCEPT ![p] = "retry"]
                      /\ mu' = NoOne
                      /\ UNCHANGED waitCh
  /\ UNCHANGED <<cstream, backoff, nfail, ctx>>
  /\ UNCHANGED <<gateVars, stream, closerVars, connVars, envVars, panicked>>

\* Lines 61-68 and 77: a goroutine calls Accept(); under mu: closed? an active
\* connection to wait for? else become the opener.
AcceptCheck(p) ==
  /\ facade = "listener"
  /\ p \in active
  /\ pc[p] = "idle"
  /\ mu = NoOne
  /\ mu' = NoOne
  /\ IF closed
       THEN /\ ev' = <<p, "closed_entry", closeDone>>
            /\ UNCHANGED <<pc, waitCh, afterClose>>
       ELSE /\ Quiet
            /\ afterClose' = [afterClose EXCEPT ![p] = closeDone]
            /\ IF closedCh # Nil
                 THEN /\ pc' = [pc EXCEPT ![p] = "wait"]
                      /\ waitCh' = [waitCh EXCEPT ![p] = closedCh]
                 ELSE /\ pc' = [pc EXCEPT ![p] = "retry"]
                      /\ UNCHANGED waitCh
  /\ UNCHANGED <<cstream, backoff, nfail, ctx>>
  /\ UNCHANGED <<gateVars, stream, closerVars, connVars, envVars, panicked>>

\* Line 69: <-ch returns once ch is closed.
AcceptWait(p) ==
  /\ facade = "listener"
  /\ pc[p] = "wait"
  /\ chan[waitCh[p]] = "closed"
  /\ Goto(p, "recheck")
  /\ UNCHANGED <<gateVars, mu, stream, closerVars, connVars, envVars, panicked>>

\* Lines 70-77: under mu the woken waiter looks at closed only, then becomes
\* the opener.
AcceptRecheck(p) ==
  /\ facade = "listener"
  /\ pc[p] = "recheck"
  /\ mu = NoOne
  /\ mu' = NoOne
  /\ IF closed THEN Return(p, "closed_woken") ELSE Goto(p, "retry")
  /\ UNCHANGED <<gateVars, stream, closerVars, connVars, envVars, panicked>>

\* Line 82: l.open() is called.
AcceptOpen(p) ==
  /\ facade = "listener"
  /\ pc[p] = "retry"
  /\ Goto(p, "inopen")
  /\ UNCHANGED <<gateVars, mu, stream, closerVars, connVars, envVars, panicked>>

\* Line 82: l.open() returns a stream (err == nil).
AcceptOpenOk(p) ==
  /\ facade = "listener"
  /\ pc[p] = "inopen"
  /\ \E s \in Streams : OpenReturnsStream(p, s)
  /\ pc' = [pc EXCEPT ![p] = "install"]
  /\ Quiet
  /\ UNCHANGED <<waitCh, backoff, ctx, afterClose>>
  /\ UNCHANGED <<gateVars, mu, closerVars, connVars, facade, active, closing, panicked>>

\* Line 82: l.open() returns an error.
AcceptOpenErr(p) ==
  /\ facade = "listener"
  /\ pc[p] = "inopen"
  /\ OpenReturnsError(p)
  /\ pc' = [pc EXCEPT ![p] = "failed"]
  /\ Quiet
  /\ UNCHANGED <<waitCh, backoff, ctx, afterClose>>
  /\ UNCHANGED <<gateVars, mu, closerVars, connVars, facade, active, closing, panicked>>

\* AcceptInstall without the test of closed at lines 84-88.
AcceptInstallIgnoresClosed(p) ==
  /\ facade = "listener"
  /\ pc[p] = "install"
  /\ mu = NoOne
  /\ mu' = NoOne
  /\ chan' = [chan EXCEPT ![cstream[p]] = "open"]
  /\ closedCh' = cstream[p]
  /\ Return(p, "conn")
  /\ UNCHANGED <<closed, stream, closerVars, connVars, envVars, panicked>>

\* Lines 83-106: under mu, give up if closed, else make the channel, install
\* it as closedCh and return the wrapper of c.
AcceptInstall(p) ==
  /\ facade = "listener"
  /\ pc[p] = "install"
  /\ mu = NoOne
  /\ mu' = NoOne
  /\ IF closed
       THEN /\ Goto(p, "discard")
            /\ UNCHANGED <<closedCh, chan>>
       ELSE /\ chan' = [chan EXCEPT ![cstream[p]] = "open"]
            /\ closedCh' = cstream[p]
            /\ Return(p, "conn")
  /\ UNCHANGED <<closed, stream, closerVars, connVars, envVars, panicked>>

\* AcceptDiscard without the c.Close() of line 86.
AcceptDiscardLeaks(p) ==
  /\ facade = "listener"
  /\ pc[p] = "discard"
  /\ Return(p, "closed_opened")
  /\ UNCHANGED <<gateVars, mu, stream, closerVars, connVars, envVars, panicked>>

\* Lines 86-87: c.Close(); return nil, net.ErrClosed.
AcceptDiscard(p) ==
  /\ facade = "listener"
  /\ pc[p] = "discard"
  /\ stream' = [stream EXCEPT ![cstream[p]] = "closed"]
  /\ Return(p, "closed_opened")
  /\ UNCHANGED <<gateVars, mu, closerVars, connVars, envVars, panicked>>

\* AcceptFailed returning the error of open instead of sleeping and retrying.
AcceptFailedReturnsOpenError(p) ==
  /\ facade = "listener"
  /\ pc[p] = "failed"
  /\ \E seen \in RacyReadClosed :
       IF seen THEN Return(p, "closed_failed") ELSE Return(p, "open_error")
  /\ UNCHANGED <<gateVars, mu, stream, closerVars, connVars, envVars, panicked>>

\* Lines 108-110: the unlocked read of l.closed after a failed open.
AcceptFailed(p) ==
  /\ facade = "listener"
  /\ pc[p] = "failed"
  /\ \E seen \in RacyReadClosed :
       IF seen THEN Return(p, "closed_failed") ELSE Goto(p, "sleep")
  /\ UNCHANGED <<gateVars, mu, stream, closerVars, connVars, envVars, panicked>>

\* Lines 111-114: time.Sleep(backoff) ends; the backoff is updated.
AcceptSleep(p) ==
  /\ facade = "listener"
  /\ pc[p] = "sleep"
  /\ pc' = [pc EXCEPT ![p] = "retry"]
  /\ backoff' = [backoff EXCEPT ![p] = NextBackoff(@)]
  /\ Quiet
  /\ UNCHANGED <<waitCh, cstream, nfail, ctx, afterClose>>
  /\ UNCHANGED <<gateVars, mu, stream, closerVars, connVars, envVars, panicked>>

Accept(p) ==
  \/ AcceptCheck(p)
  \/ AcceptWait(p)
  \/ AcceptRecheck(p)
  \/ AcceptOpen(p)
  \/ AcceptOpenOk(p)
  \/ AcceptOpenErr(p)
  \/ AcceptInstall(p)
  \/ AcceptDiscard(p)
  \/ AcceptFailed(p)
  \/ AcceptSleep(p)

\* ---- reopenDialer.DialContext ----

\* A goroutine calls DialContext (Dial is the call whose ctx is never
\* cancelled); lines 63-65: fast-fail if the context is already cancelled.
DialBegin(p) ==
  /\ facade = "dialer"
  /\ p \in active
  /\ pc[p] = "idle"
  /\ \E cancelled \in BOOLEAN :
       IF cancelled
         THEN /\ ev' = <<p, "cancel_begin", closeDone>>
              /\ UNCHANGED <<pc, afterClose>>
         ELSE /\ pc' = [pc EXCEPT ![p] = "check"]
              /\ afterClose' = [afterClose EXCEPT ![p] = closeDone]
              /\ Quiet
  /\ UNCHANGED <<waitCh, cstream, backoff, nfail, ctx>>
  /\ UNCHANGED <<gateVars, mu, stream, closerVars, connVars, envVars, panicked>>

\* The context of a call in progress is cancelled (by its owner or deadline).
DialCancel(p) ==
  /\ facade = "dialer"
  /\ pc[p] # "idle"
  /\ ~ctx[p]
  /\ ctx' = [ctx EXCEPT ![p] = TRUE]
  /\ Quiet
  /\ UNCHANGED <<pc, waitCh, cstream, backoff, nfail, afterClose>>
  /\ UNCHANGED <<gateVars, mu, stream, closerVars, connVars, envVars, panicked>>

\* DialCheck without the test of closed at lines 70-73.
DialCheckIgnoresClosed(p) ==
  /\ facade = "dialer"
  /\ pc[p] = "check"
  /\ mu = NoOne
  /\ mu' = NoOne
  /\ IF closedCh # Nil
       THEN /\ pc' = [pc EXCEPT ![p] = "wait"]
            /\ waitCh' = [waitCh EXCEPT ![p] = closedCh]
            /\ Quiet
            /\ UNCHANGED <<cstream, backoff, nfail, ctx, afterClose>>
       ELSE Goto(p, "retry")
  /\ UNCHANGED <<gateVars, stream, closerVars, connVars, envVars, panicked>>

\* Lines 69-87: under mu: closed? an active connection to wait for? else
\* break out of the loop as the opener.
DialCheck(p) ==
  /\ facade = "dialer"
  /\ pc[p] = "check"
  /\ mu = NoOne
  /\ mu' = NoOne
  /\ IF closed
       THEN Return(p, "closed_entry")
       ELSE IF closedCh # Nil
         THEN /\ pc' = [pc EXCEPT ![p] = "wait"]
              /\ waitCh' = [waitCh EXCEPT ![p] = closedCh]
              /\ Quiet
              /\ UNCHANGED <<cstream, backoff, nfail, ctx, afterClose>>
         ELSE Goto(p, "retry")
  /\ UNCHANGED <<gateVars, stream, closerVars, connVars, envVars, panicked>>

\* DialWait whose cancelled waiter gives the slot up: it clears closedCh.
DialWaitCancelReleasesSlot(p) ==
  /\ facade = "dialer"
  /\ pc[p] = "wait"
  /\ \/ /\ chan[waitCh[p]] = "closed"
        /\ Goto(p, "check")
        /\ UNCHANGED closedCh
     \/ /\ ctx[p]
        /\ Return(p, "cancel_wait")
        /\ closedCh' = Nil
  /\ UNCHANGED <<closed, chan, mu, stream, closerVars, connVars, envVars, panicked>>

\* Lines 77-83: select on <-ch (continue the loop) and <-ctx.Done().
DialWait(p) ==
  /\ facade = "dialer"
  /\ pc[p] = "wait"
  /\ \/ /\ chan[waitCh[p]] = "closed"
        /\ Goto(p, "check")
     \/ /\ ctx[p]
        /\ Return(p, "cancel_wait")
  /\ UNCHANGED <<gateVars, mu, stream, closerVars, connVars, envVars, panicked>>

\* DialOpen without the ctx.Err() test of lines 93-95.
DialOpenIgnoresCtx(p) ==
  /\ facade = "dialer"
  /\ pc[p] = "retry"
  /\ Goto(p, "inopen")
  /\ UNCHANGED <<gateVars, mu, stream, closerVars, connVars, envVars, panicked>>

\* Lines 93-97: ctx.Err() at the top of the retry loop, then d.open().
DialOpen(p) ==
  /\ facade = "dialer"
  /\ pc[p] = "retry"
  /\ IF ctx[p] THEN Return(p, "cancel_retry") ELSE Goto(p, "inopen")
  /\ UNCHANGED <<gateVars, mu, stream, closerVars, connVars, envVars, panicked>>

\* Line 97: d.open() returns a stream (err == nil).
DialOpenOk(p) ==
  /\ facade = "dialer"
  /\ pc[p] = "inopen"
  /\ \E s \in Streams : OpenReturnsStream(p, s)
  /\ pc' = [pc EXCEPT ![p] = "install"]
  /\ Quiet
  /\ UNCHANGED <<waitCh, backoff, ctx, afterClose>>
  /\ UNCHANGED <<gateVars, mu, closerVars, connVars, facade, active, closing, panicked>>

\* Line 97: d.open() returns an error.
DialOpenErr(p) ==
  /\ facade = "dialer"
  /\ pc[p] = "inopen"
  /\ OpenReturnsError(p)
  /\ pc' = [pc EXCEPT ![p] = "failcheck"]
  /\ Quiet
  /\ UNCHANGED <<waitCh, backoff, ctx, afterClose>>
  /\ UNCHANGED <<gateVars, mu, closerVars, connVars, facade, active, closing, panicked>>

\* Lines 99-123: under mu, give up if closed, else make the channel, install
\* it as closedCh and return the wrapper of c.
DialInstall(p) ==
  /\ facade = "dialer"
  /\ pc[p] = "install"
  /\ mu = NoOne
  /\ mu' = NoOne
  /\ IF closed
       THEN /\ Goto(p, "discard")
            /\ UNCHANGED <<closedCh, chan>>
       ELSE /\ chan' = [chan EXCEPT ![cstream[p]] = "open"]
            /\ closedCh' = cstream[p]
            /\ Return(p, "conn")
  /\ UNCHANGED <<closed, stream, closerVars, connVars, envVars, panicked>>

\* Lines 102-103: c.Close(); return nil, net.ErrClosed.
DialDiscard(p) ==
  /\ facade = "dialer"
  /\ pc[p] = "discard"
  /\ stream' = [stream EXCEPT ![cstream[p]] = "closed"]
  /\ Return(p, "closed_opened")
  /\ UNCHANGED <<gateVars, mu, closerVars, connVars, envVars, panicked>>

\* Lines 127-132: closed is read under mu; stop retrying if it is set.
DialFailCheck(p) ==
  /\ facade = "dialer"
  /\ pc[p] = "failcheck"
  /\ mu = NoOne
  /\ mu' = NoOne
  /\ IF closed THEN Return(p, "closed_failed") ELSE Goto(p, "sleep")
  /\ UNCHANGED <<gateVars, stream, closerVars, connVars, envVars, panicked>>

\* Lines 135-142: select on <-ctx.Done() and <-time.After(backoff); after the
\* timer the backoff is updated.
DialSleep(p) ==
  /\ facade = "dialer"
  /\ pc[p] = "sleep"
  /\ \/ /\ ctx[p]
        /\ Return(p, "cancel_sleep")
     \/ /\ pc' = [pc EXCEPT ![p] = "retry"]
        /\ backoff' = [backoff EXCEPT ![p] = NextBackoff(@)]
        /\ Quiet
        /\ UNCHANGED <<waitCh, cstream, nfail, ctx, afterClose>>
  /\ UNCHANGED <<gateVars, mu, stream, closerVars, connVars, envVars, panicked>>

DialContext(p) ==
  \/ DialBegin(p)
  \/ DialCancel(p)
  \/ DialCheck(p)
  \/ DialWait(p)
  \/ DialOpen(p)
  \/ DialOpenOk(p)
  \/ DialOpenErr(p)
  \/ DialInstall(p)
  \/ DialDiscard(p)
  \/ DialFailCheck(p)
  \/ DialSleep(p)

\* ---- Close() of the gate (reopenListener.Close, reopenDialer.Close) ----

\* The call of closer k returns.
CloseReturn(k) ==
  /\ gpc' = [gpc EXCEPT ![k] = "idle"]
  /\ gch' = [gch EXCEPT ![k] = Nil]
  /\ closeDone' = TRUE

\* A goroutine calls Close(); under mu: closed = true; ch := closedCh.
\* After the Unlock it returns if ch == nil.
CloseSet(k) ==
  /\ k \in closing
  /\ gpc[k] = "idle"
  /\ mu = NoOne
  /\ mu' = NoOne
  /\ closed' = TRUE
  /\ IF closedCh = Nil
       THEN CloseReturn(k)
       ELSE /\ gpc' = [gpc EXCEPT ![k] = "select"]
            /\ gch' = [gch EXCEPT ![k] = closedCh]
            /\ UNCHANGED closeDone
  /\ Quiet
  /\ UNCHANGED <<closedCh, chan, stream, callerVars, connVars, envVars, panicked>>

\* select { case <-ch: default: ... }: return if ch is already closed.
CloseSelect(k) ==
  /\ gpc[k] = "select"
  /\ IF chan[gch[k]] = "closed"
       THEN CloseReturn(k)
       ELSE /\ gpc' = [gpc EXCEPT ![k] = "close"]
            /\ UNCHANGED <<gch, closeDone>>
  /\ Quiet
  /\ UNCHANGED <<gateVars, mu, stream, callerVars, connVars, envVars, panicked>>

\* close(ch) in the default case: it panics if ch was closed meanwhile.
CloseChan(k) ==
  /\ gpc[k] = "close"
  /\ IF chan[gch[k]] = "closed"
       THEN /\ panicked' = TRUE
            /\ gpc' = [gpc EXCEPT ![k] = "panic"]
            /\ UNCHANGED <<gch, closeDone, chan>>
       ELSE /\ chan' = [chan EXCEPT ![gch[k]] = "closed"]
            /\ CloseReturn(k)
            /\ UNCHANGED panicked
  /\ Quiet
  /\ UNCHANGED <<closed, closedCh, mu, stream, callerVars, connVars, envVars>>

Close(k) ==
  \/ CloseSet(k)
  \/ CloseSelect(k)
  \/ CloseChan(k)

\* ---- rwConn.Close and the onClose closure of the gate ----

\* Wrapper w has been returned by Accept / DialContext.
Wrapped(w) == chan[w] # "none"

\* A goroutine calls Close() on wrapper w, which calls c.onClose(); under mu:
\* if closedCh != nil { close(closedCh); closedCh = nil }.
\* The close panics, with mu held, if that channel is already closed.
OnClose(w) ==
  /\ Wrapped(w)
  /\ wpc[w] = "idle"
  /\ mu = NoOne
  /\ IF closedCh # Nil /\ chan[closedCh] = "closed"
       THEN /\ panicked' = TRUE
            /\ mu' = <<"conn", w>>
            /\ wpc' = [wpc EXCEPT ![w] = "panic"]
            /\ UNCHANGED <<closedCh, chan>>
       ELSE /\ IF closedCh # Nil
                 THEN /\ chan' = [chan EXCEPT ![closedCh] = "closed"]
                      /\ closedCh' = Nil
                 ELSE UNCHANGED <<closedCh, chan>>
            /\ mu' = NoOne
            /\ wpc' = [wpc EXCEPT ![w] = "stream"]
            /\ UNCHANGED panicked
  /\ Quiet
  /\ UNCHANGED <<closed, wclosed, stream, callerVars, closerVars, envVars>>

\* return c.ReadWriteCloser.Close(): the underlying stream is closed.
ConnStreamClose(w) ==
  /\ wpc[w] = "stream"
  /\ stream' = [stream EXCEPT ![w] = "closed"]
  /\ wpc' = [wpc EXCEPT ![w] = "idle"]
  /\ wclosed' = [wclosed EXCEPT ![w] = TRUE]
  /\ Quiet
  /\ UNCHANGED <<gateVars, mu, callerVars, closerVars, envVars, panicked>>

ConnClose(w) ==
  \/ OnClose(w)
  \/ ConnStreamClose(w)

\* ---- the system ----

Next ==
  \/ \E p \in Callers : Accept(p)
  \/ \E p \in Callers : DialContext(p)
  \/ \E k \in Closers : Close(k)
  \/ \E w \in Streams : ConnClose(w)

Spec == Init /\ [][Next]_vars

\* One caller and an open operation that may fail BackoffFails times: the
\* runs in which the backoff of one call grows.
InitBackoff ==
  /\ InitCommon
  /\ active = {1}
  /\ closing = 1..NumClosers
  /\ failsLeft = BackoffFails

SpecBackoff == InitBackoff /\ [][Next]_vars

\* One caller and RacingClosers goroutines that call Close(): the runs in
\* which calls of Close() overlap.
InitClose ==
  /\ InitCommon
  /\ active = {1}
  /\ closing = 1..RacingClosers
  /\ failsLeft = MaxOpenFails

SpecClose == InitClose /\ [][Next]_vars

\* The steps a goroutine takes by itself once it can: the scheduler runs every
\* runnable goroutine, a timer fires, a closed channel wakes its receivers and
\* a free mutex is granted.  Calls being made, contexts being cancelled and
\* the open operation returning are the environment's and are not forced.
Internal(p) ==
  \/ AcceptWait(p)
  \/ AcceptRecheck(p)
  \/ AcceptOpen(p)
  \/ AcceptInstall(p)
  \/ AcceptDiscard(p)
  \/ AcceptFailed(p)
  \/ AcceptSleep(p)
  \/ DialCheck(p)
  \/ DialWait(p)
  \/ DialOpen(p)
  \/ DialInstall(p)
  \/ DialDiscard(p)
  \/ DialFailCheck(p)
  \/ DialSleep(p)

Fairness ==
  /\ \A p \in Callers : WF_vars(Internal(p))
  /\ \A k \in Closers : WF_vars(CloseSelect(k) \/ CloseChan(k))
  /\ \A w \in Streams : WF_vars(ConnStreamClose(w))

FairSpec == Init /\ [][Next]_vars /\ Fairness

\* ---- type correctness ----

PcValues == {"idle", "check", "wait", "recheck", "retry", "inopen", "install", "discard", "failed", "failcheck", "sleep"}

TypeOK ==
  /\ facade \in {"listener", "dialer"}
  /\ active \subseteq Callers
  /\ closing \subseteq Closers
  /\ closed \in BOOLEAN
  /\ closedCh \in Streams \cup {Nil}
  /\ chan \in [Streams -> {"none", "open", "closed"}]
  /\ stream \in [Streams -> {"none", "open", "closed"}]
  /\ pc \in [Callers -> PcValues]
  /\ waitCh \in [Callers -> Streams \cup {Nil}]
  /\ cstream \in [Callers -> Streams \cup {Nil}]
  /\ ctx \in [Callers -> BOOLEAN]
  /\ gpc \in [Closers -> {"idle", "select", "close", "panic"}]
  /\ wpc \in [Streams -> {"idle", "stream", "panic"}]
  /\ failsLeft \in Nat
  /\ ev \in (Callers \cup {0}) \X STRING \X BOOLEAN

\* ---- the claims ----

\* The wrappers that are open: returned and no Close() of them begun.
OpenWrappers == {w \in Streams : Wrapped(w) /\ ~wclosed[w] /\ wpc[w] = "idle"}

\* The callers in the opening phase: from deciding "no active connection, I
\* open" to installing the signal or failing.
OpeningPhase == {"retry", "inopen", "install", "failed", "failcheck", "sleep"}
Openers == {p \in Callers : pc[p] \in OpeningPhase}

\* C1: at most one returned connection wrapper is open at any instant.
C1_MutualExclusion == Cardinality(OpenWrappers) <= 1

\* C2: at most one caller at a time is in the opening phase, so open is never
\* invoked concurrently with itself.
C2_OpenerExclusivity == Cardinality(Openers) <= 1

\* C3: of the calls that waited on the same connection, at most one is the
\* opener after that connection is closed with the gate not closed.
C3_OneWaiterReopens ==
  \A p, q \in Callers :
    (p # q /\ ~closed /\ waitCh[p] # Nil /\ waitCh[p] = waitCh[q])
      => ~(p \in Openers /\ q \in Openers)

\* C4 as claimed: every call that begins after a gate Close() has returned
\* returns the gate-closed failure, without blocking or opening.
C4_ClosedTerminalOriginal ==
  /\ ev[3] => ev[2] = "closed_entry"
  /\ \A p \in Callers : afterClose[p] => pc[p] = "check"

\* C4 as amended: every call that begins after a gate Close() has returned
\* returns, without blocking or opening, the gate-closed failure, or, when it
\* is a DialContext whose context is already cancelled, the cancellation
\* failure of the fast-fail at its entry.
C4_ClosedTerminal ==
  /\ ev[3] => ev[2] \in {"closed_entry", "cancel_begin"}
  /\ ev[2] = "cancel_begin" => facade = "dialer"
  /\ \A p \in Callers : afterClose[p] => pc[p] = "check"

\* C4 witness: a call begun after Close() returned gate-closed while a
\* connection was still active.
C4_Witness == ev[3] /\ ev[2] = "closed_entry" /\ closedCh # Nil

\* C5: once the gate is closed, every call blocked waiting for an active
\* connection to close eventually stops waiting (to return gate-closed).
C5_WaitersReleased ==
  \A p \in Callers : (closed /\ pc[p] = "wait") ~> (pc[p] # "wait")

\* C6: closed never reverts, and once it is true no call installs a new
\* activeSignal or returns a connection wrapper.
C6_NoConnAfterClosed ==
  [][closed =>
       /\ closed'
       /\ closedCh' \in {closedCh, Nil}
       /\ \A c \in Streams : chan[c] = "none" => chan'[c] = "none"
       /\ Result(ev'[2]) # "conn"]_vars

\* C6 witness: an opener whose open succeeded after the gate was closed ended
\* in the gate-closed failure.
C6_Witness == closed /\ ev[2] = "closed_opened"

\* The wait the code makes after the i-th failed attempt, as claimed.
RECURSIVE Pow2(_)
Pow2(n) == IF n = 0 THEN 1 ELSE 2 * Pow2(n - 1)
ClaimedBackoff(i) == IF InitialBackoff * Pow2(i) < BackoffLimit THEN InitialBackoff * Pow2(i) ELSE BackoffLimit

\* C7: the wait after the i-th failed open attempt of a call is
\* min(100ms * 2^i, 2000ms), never more than 2 seconds.
C7_BackoffCap ==
  \A p \in Callers :
    pc[p] = "sleep" => backoff[p] = ClaimedBackoff(nfail[p] - 1) /\ backoff[p] <= BackoffLimit

\* C8: a call returns a wrapper, gate-closed or (dialer) cancelled and nothing
\* else; after a failed open the opener sleeps and retries unless the gate is
\* closed or its context cancelled, however many attempts have failed.
C8_TerminalOutcomes ==
  [][/\ Result(ev'[2]) \in {"none", "conn", "ErrClosed", "Cancelled"}
     /\ Result(ev'[2]) = "Cancelled" => facade = "dialer"
     /\ ev'[2] = "conn" => closedCh' # Nil /\ chan'[closedCh'] = "open"
     /\ \A p \in Callers :
          (pc[p] \in {"failed", "failcheck", "sleep"} /\ pc'[p] # pc[p])
            => \/ pc'[p] \in {"sleep", "retry"}
               \/ ev'[1] = p /\ Result(ev'[2]) = "ErrClosed" /\ closed
               \/ ev'[1] = p /\ Result(ev'[2]) = "Cancelled" /\ ctx[p]]_vars

\* C8 witness: an opener is about to retry after BackoffFails failed attempts.
C8_Witness == \E p \in Callers : pc[p] = "sleep" /\ nfail[p] = BackoffFails

C10_DoubleCloseSafe ==
  [][\A w \in Streams :
       (wclosed[w] /\ wpc[w] = "idle" /\ wpc'[w] # "idle")
         => UNCHANGED <<closed, closedCh, chan>>]_vars

\* C11: however many Close() calls of the gate run, one after the other or
\* overlapping, none fails by signalling the active slot a second time (no
\* Close() of a wrapper being involved).
C11_CloseIdempotent ==
  (\A w \in Streams : wpc[w] = "idle" /\ ~wclosed[w])
    => \A k \in Closers : gpc[k] # "panic"

\* C12: if the gate is never closed, every invocation of open returns and
\* every returned connection is eventually closed, every call blocked waiting
\* on an active connection eventually stops waiting.
C12_WaiterProgress ==
  (/\ []~closed
   /\ \A q \in Callers : [](pc[q] = "inopen" => <>(pc[q] # "inopen"))
   /\ \A w \in Streams : [](Wrapped(w) => <>wclosed[w]))
    => \A p \in Callers : (pc[p] = "wait") ~> (pc[p] # "wait")

\* C13: no activeSignal channel is ever closed twice: no close of a closed
\* channel is reachable.
C13_SignalFiresOnce == ~panicked

\* C14: closedCh is non-nil exactly when a wrapper returned by this gate has
\* not yet been closed, and at most one activeSignal is live at a time.
C14_SignalTracksConn ==
  /\ (closedCh # Nil) <=> (OpenWrappers # {})
  /\ Cardinality({c \in Streams : chan[c] = "open"}) <= 1

\* C15: a Close() of wrapper w signals and clears the activeSignal only when
\* it is the one installed for w; it never touches the signal of another
\* wrapper.
C15_SlotCorrespondence ==
  [][\A w \in Streams :
       (wpc[w] = "idle" /\ wpc'[w] # "idle")
         => \/ closedCh = w
            \/ closedCh' = closedCh /\ chan' = chan]_vars

\* The points of a call where it is inside open, blocked on an activeSignal
\* or a context, or in a backoff sleep.
Suspended == {"inopen", "wait", "sleep"}

\* C16: no caller holds mu while it is in open, waiting or sleeping, so mu is
\* free between the critical sections (it stays held only by a wrapper's
\* onClose that panicked, never by a caller).
C16_LockDiscipline ==
  /\ \A p \in Callers : pc[p] \in Suspended => mu # <<"call", p>>
  /\ mu[1] # "call"
  /\ mu # NoOne => panicked

\* C16 witness: Close() took the lock while a call was suspended.
C16_Witness ==
  \E p \in Callers : pc[p] \in Suspended /\ ~afterClose[p] /\ closed /\ closeDone /\ mu = NoOne

\* C17: a DialContext begun with a cancelled context returns the cancellation
\* failure without opening and without changing the gate; open is never
\* started by a retry iteration that sees the context cancelled, and a
\* backoff wait ended by cancellation ends the call.
C17_CancelCheckPoints ==
  [][/\ ev'[2] = "cancel_begin" =>
          /\ UNCHANGED <<closed, closedCh, chan, mu, stream, pc, cstream>>
          /\ UNCHANGED <<closerVars, connVars, failsLeft, panicked>>
     /\ \A p \in Callers :
          /\ (facade = "dialer" /\ pc[p] # "inopen" /\ pc'[p] = "inopen") => ~ctx[p]
          /\ (pc[p] = "retry" /\ ctx[p] /\ pc'[p] # pc[p])
               => ev' = <<p, "cancel_retry", afterClose[p]>> /\ pc'[p] = "idle"
     /\ ev'[2] = "cancel_sleep" =>
          /\ pc[ev'[1]] = "sleep" /\ ctx[ev'[1]] /\ pc'[ev'[1]] = "idle"
          /\ UNCHANGED <<closed, closedCh, chan, stream, failsLeft>>]_vars

\* C17 witness: an opener found its context cancelled at the top of a retry
\* iteration, with the gate open and idle, and returned without opening.
C17_Witness == ev[2] = "cancel_retry" /\ ~closed /\ closedCh = Nil

\* C18: in both facades a woken waiter becomes the opener only after it has
\* seen, under mu, the gate not closed and no connection active.
C18_FacadeEquivalence ==
  [][\A p \in Callers :
       (waitCh[p] # Nil /\ pc[p] \in {"check", "recheck"} /\ pc'[p] = "retry")
         => ~closed /\ closedCh = Nil]_vars

\* C19: whenever open is invoked, every stream open returned before has been
\* closed; stated for the case the claim singles out: a waiter woken by a
\* wrapper's close notification invokes open only after the stream of the
\* connection it waited for has been closed.
C19_NoReopenOverOpenStream ==
  [][\A p \in Callers :
       (waitCh[p] # Nil /\ pc[p] # "inopen" /\ pc'[p] = "inopen")
         => stream[waitCh[p]] = "closed"]_vars

\* C20: a stream returned by open and not closed belongs to one returned
\* wrapper or to the one call that is about to wrap or close it; a call that
\* finds the gate closed after its open succeeded closes the stream and
\* returns gate-closed, so no unowned open stream is left.
C20_NoLeakedStream ==
  /\ \A s \in Streams :
       (stream[s] = "open" /\ ~Wrapped(s))
         => \E p \in Callers : pc[p] \in {"install", "discard"} /\ cstream[p] = s
  /\ \A s \in Streams : Wrapped(s) => \A p \in Callers : cstream[p] # s
  /\ \A p, q \in Callers : (p # q /\ cstream[p] # Nil) => cstream[p] # cstream[q]
  /\ \A p \in Callers : pc[p] = "discard" => closed /\ cstream[p] # Nil

\* C20 witness: a call whose open succeeded after Close() has closed the
\* stream it got, unwrapped, and returned gate-closed.
C20_Witness ==
  /\ ev[2] = "closed_opened"
  /\ \E s \in Streams : stream[s] = "closed" /\ ~Wrapped(s)
  /\ \A s \in Streams : stream[s] = "open" => Wrapped(s)
====
